---- MODULE Spec2Model ----
(***************************************************************************)
(* GSamNetwork (src/src/groundino_samnet/gsam_combined.py): the detector / *)
(* segmenter orchestration class.  Every public method, the private prompt *)
(* preparation and the constructor are operators that compute the outcome  *)
(* of one call (the exception it raises or the value it returns, the       *)
(* collaborator calls it made, and the segmenter's active image when it    *)
(* exits); one action per method applies the operator to inputs drawn from *)
(* small sets.  The external networks (GroundingDINO's predict, SAM's      *)
(* predict_torch, the hub) are oracles: their answers are inputs.          *)
(***************************************************************************)
EXTENDS Integers, Sequences, FiniteSets, TLC

VARIABLES self, active, last

vars == <<self, active, last>>

(* ------------------------------ bounds -------------------------------- *)

\* longest image list given to a batch method, longest group of a corpus
MaxBatch == 2
\* most boxes in one box prompt
MaxBoxes == 1
\* most detections the detector answers with
MaxDet == 1
\* most groups in a corpus
MaxGroups == 1

(* --------------------------- Python values ---------------------------- *)

\* Optional values: None is the empty tuple, a present value x is <<x>>.
None == <<>>

Some(x) == <<x>>

IsNone(o) == Len(o) = 0

\* A local variable: assigned (holding an optional value) or never assigned.
UnboundLocal == [bound |-> FALSE, val |-> None]

Bound(v) == [bound |-> TRUE, val |-> v]

\* The outcome of a call: the exception raised ("ok" when it returns), the
\* returned value, the collaborator calls made in order, and the segmenter's
\* active image when the call exits.
Raise(e, ev, act) == [err |-> e, ret |-> None, events |-> ev, active |-> act]

Return(v, ev, act) == [err |-> "ok", ret |-> Some(v), events |-> ev, active |-> act]

\* A call of a collaborator: its name, the image it is about, the boxes it is
\* given (None where it takes none).
Ev(c, img, bx) == [call |-> c, image |-> img, boxes |-> bx]

\* Names bound in the module's namespace when a method runs: the imports of
\* lines 1-15 and the relative import of line 400.
ModuleGlobals ==
    {"sys", "os", "torch", "np", "Image", "hf_hub_download",
     "List", "Union", "Tuple", "Optional",
     "sam_model_registry", "SamPredictor", "SAM1_MODELS", "SAM_NAMES_MODELS",
     "predict", "load_model", "box_ops", "GSamNetwork",
     "load_trans_image", "change_image_instance", "process_box_batch",
     "process_masks"}

\* The attributes the class body defines (methods and the device property).
ClassAttributes ==
    {"__init__", "__Build_GroundingDINO", "__Build_SAM1", "__Build_SAM2",
     "predict_dino", "predict_dino_batch", "predict_SAM1",
     "predict_SAM1_batch", "predict_batch", "LangSam_batch", "reset_model",
     "device", "__prep_prompts"}

\* device is a property with a getter only (lines 368-370): assigning it
\* raises AttributeError, reading it re-enters the getter without end.
device_set == "AttributeError:device"

device_get == "RecursionError:device"

(* ------------------------------ inputs -------------------------------- *)

\* An image is abstracted to the shape of its pixel array (height, width).
Images == {[h |-> 1, w |-> 2], [h |-> 2, w |-> 1], [h |-> 2, w |-> 2]}

\* Image lists of batches and corpora: the first n images of a fixed list of
\* pairwise different images.
BatchImage(i) == [h |-> i, w |-> i + 1]

ImageList(n) == [i \in 1..n |-> BatchImage(i)]

\* Boxes are 4-tuples of integers; a first coordinate in 0..1 reads as
\* normalised (cx, cy, w, h), anything else as absolute.
BoxValues == {<<1, 0, 1, 1>>, <<2, 1, 3, 2>>}

SeqsUpTo(S, n) == UNION {[1..k -> S] : k \in 0..n}

\* The boxes argument: None, or a tensor of 0..MaxBoxes boxes.
BoxArgs == {None} \cup {Some(b) : b \in SeqsUpTo(BoxValues, MaxBoxes)}

PointCoordArgs == {None, Some(<<<<1, 1>>>>)}

PointLabelArgs == {None, Some(<<1>>)}

\* What the detector's predict answers: it raises, or returns detections
\* (a normalised box, a logit in hundredths, a phrase) above box_threshold.
DetValues ==
    {[box |-> <<1, 0, 1, 1>>, logit |-> 35, phrase |-> "dog"],
     [box |-> <<0, 1, 1, 1>>, logit |-> 60, phrase |-> "dog"]}

DetAnswers ==
    {[raises |-> TRUE, dets |-> <<>>]}
      \cup {[raises |-> FALSE, dets |-> d] : d \in SeqsUpTo(DetValues, MaxDet)}

\* What predict_torch answers: it raises, or returns one mask per prompt;
\* a mask is abstracted to its area in pixels.
SegAnswers ==
    {[raises |-> TRUE, masks |-> <<>>]}
      \cup {[raises |-> FALSE, masks |-> m] : m \in {<<>>, <<499>>, <<500>>, <<499, 500>>}}

(* --------------------------- box arithmetic --------------------------- *)

\* np.clip(x, lo, hi)
clip(x, lo, hi) == IF x < lo THEN lo ELSE IF x > hi THEN hi ELSE x

\* box_ops.box_cxcywh_to_xyxy, in half units (every corner is doubled so that
\* cx - w/2 stays an integer).
box_cxcywh_to_xyxy(b) ==
    <<2 * b[1] - b[3], 2 * b[2] - b[4], 2 * b[1] + b[3], 2 * b[2] + b[4]>>

\* boxes * torch.Tensor([W, H, W, H])
scale_boxes(bs, W, H) ==
    [i \in 1..Len(bs) |-> <<bs[i][1] * W, bs[i][2] * H, bs[i][3] * W, bs[i][4] * H>>]

\* SAM1.transform.apply_boxes_torch / apply_coords_torch: the segmenter's own
\* resize of coordinates, kept as the coordinates tagged with the frame size.
apply_boxes_torch(bs, size) == [frame |-> "sam", coords |-> bs, size |-> size]

apply_coords_torch(ps, size) == [frame |-> "sam", coords |-> ps, size |-> size]

(* ---------------------------- __prep_prompts --------------------------- *)

\* Lines 374-380: the boxes branch.  The result is the local transformed_boxes
\* or the exception raised while computing it.
prep_boxes(slf, boxes, W, H) ==
    IF IsNone(boxes) THEN [err |-> "ok", tb |-> Bound(None)]
    ELSE LET b == boxes[1] IN
         IF Len(b) = 0 THEN [err |-> "IndexError:boxes", tb |-> UnboundLocal]
         ELSE IF clip(b[1][1], 0, 1) = b[1][1]
              THEN IF ~slf.SAM1
                   THEN [err |-> "AttributeError:SAM1", tb |-> UnboundLocal]
                   ELSE [err |-> "ok",
                         tb |-> Bound(Some(apply_boxes_torch(
                                   scale_boxes([i \in 1..Len(b) |-> box_cxcywh_to_xyxy(b[i])], W, H),
                                   <<W, H>>)))]
              ELSE [err |-> "ok", tb |-> UnboundLocal]

\* Lines 382-390: the pairing check and the points branch.
prep_points(slf, points_coords, points_labels, W, H) ==
    IF ~IsNone(points_coords) /\ IsNone(points_labels)
    THEN [err |-> "ValueError:pairing", tp |-> None, pl |-> None]
    ELSE IF ~IsNone(points_labels) /\ IsNone(points_coords)
    THEN [err |-> "ValueError:pairing", tp |-> None, pl |-> None]
    ELSE IF ~IsNone(points_coords) /\ ~IsNone(points_labels)
    THEN IF ~slf.SAM1
         THEN [err |-> "AttributeError:SAM1", tp |-> None, pl |-> None]
         ELSE [err |-> "ok",
               tp |-> Some(apply_coords_torch(points_coords[1], <<W, H>>)),
               pl |-> points_labels]
    ELSE [err |-> "ok", tp |-> None, pl |-> None]

\* __prep_prompts(self, boxes, points_coords, points_labels, dims), lines
\* 372-392.  dims is unpacked as W, H = dims.
prep_prompts(slf, boxes, points_coords, points_labels, dims) ==
    LET W == dims[1]
        H == dims[2]
        bx == prep_boxes(slf, boxes, W, H)
        pt == prep_points(slf, points_coords, points_labels, W, H)
    IN  IF bx.err # "ok" THEN [err |-> bx.err, ret |-> None]
        ELSE IF pt.err # "ok" THEN [err |-> pt.err, ret |-> None]
        ELSE IF ~bx.tb.bound
             THEN [err |-> "UnboundLocalError:transformed_boxes", ret |-> None]
             ELSE [err |-> "ok", ret |-> Some(<<bx.tb.val, pt.tp, pt.pl>>)]

\* A call of __prep_prompts with the positional arguments args: the method
\* takes exactly four after self.
call_prep_prompts(slf, args) ==
    IF Len(args) # 4 THEN [err |-> "TypeError:dims", ret |-> None]
    ELSE prep_prompts(slf, args[1], args[2], args[3], args[4])

(* ----------------------------- predict_SAM1 ---------------------------- *)

\* postprocess_masks(masks, area_threshold): named by the code but bound
\* nowhere; where it is bound it keeps the masks of at least the threshold.
area_threshold == 500

postprocess_masks(masks, t) == SelectSeq(masks, LAMBDA a : a >= t)

\* torch.any(masks, dim=0): the logical OR of the surviving masks over an
\* image of the given shape.
combined_mask(img, masks) ==
    [h |-> img.h, w |-> img.w, any |-> \E i \in 1..Len(masks) : masks[i] > 0]

\* predict_SAM1, lines 206-223, entered with the segmenter's active image act.
predict_SAM1(slf, act, image, boxes, points_coords, points_labels, seg) ==
    LET image_array == image
        p == call_prep_prompts(slf, <<boxes, points_coords, points_labels,
                                      <<image_array.h, image_array.w>>>>)
    IN  IF p.err # "ok" THEN Raise(p.err, <<>>, act)
        ELSE IF ~slf.SAM1 THEN Raise("AttributeError:SAM1", <<>>, act)
        ELSE LET tb == p.ret[1][1]
                 tp == p.ret[1][2]
                 pl == p.ret[1][3]
                 set == <<Ev("set_image", image_array, None)>>
             IN  IF IsNone(tp) \/ IsNone(pl) \/ IsNone(tb)
                 THEN Raise("AttributeError:NoneType.to", set, Some(image_array))
                 ELSE LET torch == set \o <<Ev("predict_torch", image_array, tb)>>
                      IN  IF seg.raises
                          THEN Raise("SegmenterError", torch, Some(image_array))
                          ELSE LET reset == torch \o <<Ev("reset_image", image_array, None)>>
                               IN  IF "postprocess_masks" \notin ModuleGlobals
                                   THEN Raise("NameError:postprocess_masks", reset, None)
                                   ELSE Return(combined_mask(image_array,
                                                  postprocess_masks(seg.masks, area_threshold)),
                                               reset, None)


(* ----------------------------- predict_dino ---------------------------- *)

\* postprocess_box(boxes, logits, phrases): named by the code but bound
\* nowhere; where it is bound the detections pass through it index-aligned.
postprocess_box(dets) == dets

\* The (boxes, logits, phrases) triple of a list of detections.
triple(dets) ==
    <<[i \in 1..Len(dets) |-> dets[i].box],
      [i \in 1..Len(dets) |-> dets[i].logit],
      [i \in 1..Len(dets) |-> dets[i].phrase]>>

\* Lines 152-154: W, H = image_array.shape[:2], then the corner conversion
\* scaled by (W, H, W, H).
normalize_dets(dets, image_array) ==
    LET W == image_array.h
        H == image_array.w
    IN  [i \in 1..Len(dets) |->
            [dets[i] EXCEPT !.box = scale_boxes(<<box_cxcywh_to_xyxy(dets[i].box)>>, W, H)[1]]]

\* predict_dino, lines 144-157.  The arguments of predict are evaluated in
\* order: self.groundingdino, then self.device.
predict_dino(slf, act, image, det, Normalize) ==
    IF ~slf.groundingdino THEN Raise("AttributeError:groundingdino", <<>>, act)
    ELSE IF device_get # "ok" THEN Raise(device_get, <<>>, act)
    ELSE LET called == <<Ev("predict", image, None)>> IN
         IF det.raises THEN Raise("DetectorError", called, act)
         ELSE LET dets == IF Normalize THEN normalize_dets(det.dets, image) ELSE det.dets
              IN  IF "postprocess_box" \notin ModuleGlobals
                  THEN Raise("NameError:postprocess_box", called, act)
                  ELSE Return(triple(postprocess_box(dets)), called, act)

\* list(map(lambda image: self.predict_dino(...), images)), lines 178-182:
\* the images in order, stopping at the first exception.
RECURSIVE map_predict_dino(_, _, _, _, _, _, _)
map_predict_dino(slf, act, images, dets, Normalize, i, acc) ==
    IF i > Len(images) THEN acc
    ELSE LET r == predict_dino(slf, act, images[i], dets[i], Normalize) IN
         IF r.err # "ok" THEN Raise(r.err, acc.events \o r.events, act)
         ELSE map_predict_dino(slf, act, images, dets, Normalize, i + 1,
                  Return(Append(acc.ret[1], r.ret[1]), acc.events \o r.events, act))

\* zip(*results) unpacked into three names, lines 184-185.
unzip3(results) ==
    IF Len(results) = 0 THEN [err |-> "ValueError:unpack", ret |-> None]
    ELSE [err |-> "ok",
          ret |-> Some(<<[i \in 1..Len(results) |-> results[i][1]],
                         [i \in 1..Len(results) |-> results[i][2]],
                         [i \in 1..Len(results) |-> results[i][3]]>>)]

\* predict_dino_batch, lines 178-185.
predict_dino_batch(slf, act, images, dets, Normalize) ==
    LET m == map_predict_dino(slf, act, images, dets, Normalize, 1, Return(<<>>, <<>>, act))
    IN  IF m.err # "ok" THEN m
        ELSE LET z == unzip3(m.ret[1]) IN
             IF z.err # "ok" THEN Raise(z.err, m.events, act)
             ELSE Return(z.ret[1], m.events, act)

(* -------------------------- predict_SAM1_batch ------------------------- *)

\* [None] * n
nones(n) == [i \in 1..n |-> None]

\* Lines 244-247: the pairing check on the list arguments.
batch_pairing_ok(points_coords, points_labels) ==
    /\ ~(~IsNone(points_coords) /\ IsNone(points_labels))
    /\ ~(~IsNone(points_labels) /\ IsNone(points_coords))

\* A length check that leaves the boxes out.
lengths_match_without_boxes(images, boxes, points_coords, points_labels) ==
    /\ Len(images) = Len(points_coords)
    /\ Len(points_coords) = Len(points_labels)

\* Line 255: len(images) == len(boxes) == len(points_coords) == len(points_labels)
lengths_match(images, boxes, points_coords, points_labels) ==
    /\ Len(images) = Len(boxes)
    /\ Len(boxes) = Len(points_coords)
    /\ Len(points_coords) = Len(points_labels)

\* process_image, lines 274-286: __prep_prompts is called with three
\* arguments, set_image with none.
process_image(slf, act, image, box, point_coord, point_label) ==
    LET p == call_prep_prompts(slf, <<box, point_coord, point_label>>) IN
    IF p.err # "ok" THEN Raise(p.err, <<>>, act)
    ELSE IF ~slf.SAM1 THEN Raise("AttributeError:SAM1", <<>>, act)
    ELSE Raise("TypeError:set_image", <<>>, act)

\* zip(images, boxes, points_coords, points_labels) stops with its shortest
\* argument.
zip_len(images, boxes, pcs, pls) ==
    CHOOSE n \in {Len(images), Len(boxes), Len(pcs), Len(pls)} :
        \A k \in {Len(images), Len(boxes), Len(pcs), Len(pls)} : n <= k

\* The list comprehension of line 287: the zipped entries in order, stopping
\* at the first exception.
RECURSIVE map_process_image(_, _, _, _, _, _, _)
map_process_image(slf, images, boxes, pcs, pls, i, acc) ==
    IF i > zip_len(images, boxes, pcs, pls) THEN acc
    ELSE LET r == process_image(slf, acc.active, images[i], boxes[i], pcs[i], pls[i]) IN
         IF r.err # "ok" THEN Raise(r.err, acc.events \o r.events, r.active)
         ELSE map_process_image(slf, images, boxes, pcs, pls, i + 1,
                  Return(Append(acc.ret[1], r.ret[1]), acc.events \o r.events, r.active))

\* predict_SAM1_batch, lines 244-288.
predict_SAM1_batch(slf, act, images, boxes, points_coords, points_labels) ==
    IF ~batch_pairing_ok(points_coords, points_labels)
    THEN Raise("ValueError:pairing", <<>>, act)
    ELSE LET bs == IF IsNone(boxes) THEN nones(Len(images)) ELSE boxes[1]
             pcs == IF IsNone(points_coords) THEN nones(Len(images)) ELSE points_coords[1]
             pls == IF IsNone(points_coords) THEN nones(Len(images)) ELSE points_labels[1]
         IN  IF ~lengths_match(images, bs, pcs, pls)
             THEN Raise("ValueError:length", <<>>, act)
             ELSE map_process_image(slf, images, bs, pcs, pls, 1, Return(<<>>, <<>>, act))

(* ----------------------------- predict_batch --------------------------- *)

\* process_box_batch(shape, boxes, logits, phrases, box_threshold) of the
\* package's utils: per image of the batch, the detections whose score
\* reaches the threshold, index-aligned.
process_box_batch(shape, boxes, logits, phrases, box_threshold) ==
    LET keep(k) == {i \in 1..Len(logits[k]) : logits[k][i] >= box_threshold}
        idx(k) == SelectSeq([i \in 1..Len(logits[k]) |-> i], LAMBDA i : i \in keep(k))
        pick(xs, k) == [j \in 1..Len(idx(k)) |-> xs[k][idx(k)[j]]]
    IN  <<[k \in 1..Len(boxes) |-> pick(boxes, k)],
          [k \in 1..Len(boxes) |-> pick(logits, k)],
          [k \in 1..Len(boxes) |-> pick(phrases, k)]>>

\* predict_batch, lines 300-319.  self.predict_sam_with_boxes is looked up on
\* the class, which defines no such attribute; where it is defined it is the
\* segmenter call on the filtered boxes of the one image.
predict_batch(slf, act, image, process_box_threshold, mode_predict, det, seg) ==
    LET d == predict_dino(slf, act, image, det, FALSE) IN
    IF d.err # "ok" THEN d
    ELSE LET shape == <<image.h, image.w>>
             new == process_box_batch(shape, <<d.ret[1][1]>>, <<d.ret[1][2]>>,
                                      <<d.ret[1][3]>>, process_box_threshold)
             filtered == d.events \o <<Ev("process_box_batch", image, Some(new[1][1]))>>
         IN  IF mode_predict = "box_predict"
             THEN IF "predict_sam_with_boxes" \notin ClassAttributes
                  THEN Raise("AttributeError:predict_sam_with_boxes", filtered, act)
                  ELSE LET m == predict_SAM1(slf, act, image, Some(new[1][1]), None, None, seg)
                           ev == filtered
                                   \o <<Ev("predict_sam_with_boxes", image, Some(new[1][1]))>>
                                   \o m.events
                       IN  IF m.err # "ok"
                           THEN Raise(m.err, ev, m.active)
                           ELSE Return(<<new[1], new[2], new[3], m.ret[1]>>, ev, m.active)
             ELSE Raise("UnboundLocalError:masks", filtered, act)

(* ----------------------------- LangSam_batch --------------------------- *)

\* The (image, mask_org, id) records of image_data in iteration order, lines
\* 336-340: data[0][i], data[1][i], data[2][i] for each group data.
RECURSIVE records(_)
records(image_data) ==
    IF Len(image_data) = 0 THEN <<>>
    ELSE LET data == Head(image_data) IN
         [i \in 1..Len(data[1]) |->
             [image |-> data[1][i], mask_org |-> data[2][i], id |-> data[3][i]]]
           \o records(Tail(image_data))

\* The seven accumulators of lines 329-335.
EmptyAcc ==
    [boxess |-> <<>>, logitss |-> <<>>, phrasess |-> <<>>, images |-> <<>>,
     ids |-> <<>>, original_masks |-> <<>>, predict_masks |-> <<>>]

\* Lines 351-357: one append to each accumulator.
append_all(acc, loc, rec) ==
    [boxess |-> Append(acc.boxess, loc[1]),
     logitss |-> Append(acc.logitss, loc[2]),
     phrasess |-> Append(acc.phrasess, loc[3]),
     images |-> Append(acc.images, rec.image),
     ids |-> Append(acc.ids, rec.id),
     original_masks |-> Append(acc.original_masks, rec.mask_org),
     predict_masks |-> Append(acc.predict_masks, loc[4])]

\* The loop body for the records from position i on.  loc holds the locals
\* boxes, logits, phrases, masks, which only the "batch" branch assigns.
RECURSIVE corpus_loop(_, _, _, _, _, _, _, _, _, _, _)
corpus_loop(slf, act, recs, pbt, mode_predict, mode_data, det, seg, i, loc, out) ==
    IF i > Len(recs) THEN Return(out.acc, out.events, act)
    ELSE LET r == IF mode_data = "batch"
                  THEN predict_batch(slf, act, recs[i].image, pbt, mode_predict, det, seg)
                  ELSE Return(None, <<>>, act)
             ev == out.events \o r.events
         IN  IF r.err # "ok" THEN Raise(r.err, ev, r.active)
             ELSE LET loc2 == IF mode_data = "batch" THEN Bound(r.ret[1]) ELSE loc IN
                  IF ~loc2.bound THEN Raise("UnboundLocalError:boxes", ev, r.active)
                  ELSE corpus_loop(slf, r.active, recs, pbt, mode_predict, mode_data, det,
                                   seg, i + 1, loc2,
                                   [acc |-> append_all(out.acc, loc2.val, recs[i]),
                                    events |-> ev])

\* LangSam_batch, lines 329-363.
LangSam_batch(slf, act, image_data, pbt, mode_predict, mode_data, det, seg) ==
    corpus_loop(slf, act, records(image_data), pbt, mode_predict, mode_data, det, seg,
                1, UnboundLocal, [acc |-> EmptyAcc, events |-> <<>>])

(* ------------------------------ reset_model ---------------------------- *)

\* reset_model, lines 365-366: self.sam is an attribute nothing assigns.
reset_model(slf, act) == Raise("AttributeError:sam", <<>>, act)

(* ------------------------------- __init__ ------------------------------ *)

\* segment_anything.config of the package: the family selectors and the
\* sub-model names of each family.
SAM_NAMES_MODELS == {"SAM1", "SAM2"}

SAM1_MODELS == {"vit_h", "vit_l", "vit_b"}

SAM2_MODELS == {"tiny", "small", "base_plus", "large"}

default_sam1 == "vit_h"

default_sam2 == "large"

\* __Build_GroundingDINO, lines 73-85: both failures are raised.
Build_GroundingDINO(env) ==
    IF ~env.hub THEN "RuntimeError:download"
    ELSE IF ~env.load THEN "RuntimeError:load"
    ELSE "ok"

\* __Build_SAM1, lines 97-108.  SAM1_MODELS[SAM1] reads the name SAM1; the
\* handler of line 102 formats checkpoint_url, a local that is still
\* unassigned when the first statement of the try block raised.
Build_SAM1(SAM, env) ==
    IF "SAM1" \notin ModuleGlobals THEN "UnboundLocalError:checkpoint_url"
    ELSE IF ~env.checkpoint THEN "RuntimeError:sam_download"
    ELSE IF ~env.compile THEN "RuntimeError:sam_compile"
    ELSE "ok"

\* __Build_SAM2, lines 113-121: pass.
Build_SAM2(SAM, env) == "ok"

\* The constructor raised e: no object.
Failed(e) == [err |-> e, ret |-> None, events |-> <<>>]

\* The constructor completed: the object with its attributes; a build error
\* b of the segmentation model was caught and printed (lines 38-49, 55-66).
Constructed(sam1bound, b) ==
    [err |-> "ok",
     ret |-> Some([groundingdino |-> TRUE, SAM1 |-> sam1bound]),
     events |-> IF b = "ok" THEN <<>> ELSE <<Ev("print", None, Some(b))>>]

\* __init__, lines 20-66.
init(SAM, SAM_MODEL, env) ==
    IF ~SAM.isStr THEN Failed("TypeError:selector")
    ELSE IF SAM.v \notin SAM_NAMES_MODELS THEN Failed("ValueError:selector")
    ELSE IF device_set # "ok" THEN Failed(device_set)
    ELSE IF Build_GroundingDINO(env) # "ok" THEN Failed(Build_GroundingDINO(env))
    ELSE IF SAM.v = "SAM1"
         THEN IF IsNone(SAM_MODEL)
              THEN LET b == Build_SAM1(default_sam1, env) IN Constructed(b = "ok", b)
              ELSE IF SAM_MODEL[1] \notin SAM1_MODELS
                   THEN Failed("ValueError:sam_model")
                   ELSE LET b == Build_SAM1(SAM_MODEL[1], env) IN Constructed(b = "ok", b)
    ELSE IF SAM.v = "SAM2"
         THEN IF IsNone(SAM_MODEL)
              THEN LET b == Build_SAM2(default_sam2, env) IN Constructed(FALSE, b)
              ELSE IF "SAM2_MODELS" \notin ModuleGlobals
                   THEN Failed("NameError:SAM2_MODELS")
                   ELSE IF SAM_MODEL[1] \notin SAM2_MODELS
                        THEN Failed("ValueError:sam_model")
                        ELSE LET b == Build_SAM2(SAM_MODEL[1], env) IN Constructed(FALSE, b)
    ELSE Constructed(FALSE, "ok")

(* ------------------------------ more inputs ---------------------------- *)

\* The SAM argument: a string, or a list holding one.
SelectorArgs ==
    {[isStr |-> TRUE, v |-> "SAM1"], [isStr |-> TRUE, v |-> "SAM2"],
     [isStr |-> TRUE, v |-> "SAM3"], [isStr |-> FALSE, v |-> "SAM1"]}

SubModelArgs == {None, Some("vit_h"), Some("vit_b"), Some("large"), Some("sa")}

\* What the hub and the loaders do during construction.
Envs == [hub : BOOLEAN, load : BOOLEAN, checkpoint : BOOLEAN, compile : BOOLEAN]

Modes == {"box_predict", "point_predict"}

DataModes == {"batch", "single"}

\* process_box_threshold, in hundredths.
Thresholds == {30, 50}

\* A list argument of a batch method: None, or n copies of one prompt.
ListArgs(x) == {None} \cup {Some([i \in 1..n |-> x]) : n \in 0..MaxBatch}

\* Group g of a corpus, holding the first n images: (images, ground-truth
\* masks, identifiers).
Group(g, n) ==
    <<ImageList(n), [i \in 1..n |-> [gt |-> 10 * g + i]], [i \in 1..n |-> 10 * g + i]>>

Corpora ==
    {[g \in 1..Len(sizes) |-> Group(g, sizes[g])] :
        sizes \in SeqsUpTo(0..MaxBatch, MaxGroups)}

(* ------------------------------- state -------------------------------- *)

\* self: which of the attributes groundingdino (line 83) and SAM1 (line 106)
\* the receiver of the method calls has bound.  active: the image the
\* segmenter holds (set_image sets it, reset_image clears it).  last: the
\* call that has just exited and its outcome, until the caller goes on.
Idle == [op |-> "none"]

Init ==
    /\ self \in [groundingdino : BOOLEAN, SAM1 : BOOLEAN]
    /\ active = None
    /\ last = Idle

Finish(op, args, out) ==
    /\ last' = [op |-> op, args |-> args, err |-> out.err, ret |-> out.ret,
                events |-> out.events]
    /\ active' = out.active
    /\ UNCHANGED self

Construct ==
    /\ last = Idle
    /\ \E SAM \in SelectorArgs, SAM_MODEL \in SubModelArgs, env \in Envs :
          LET out == init(SAM, SAM_MODEL, env) IN
          /\ last' = [op |-> "__init__",
                      args |-> [SAM |-> SAM, SAM_MODEL |-> SAM_MODEL, env |-> env],
                      err |-> out.err, ret |-> out.ret, events |-> out.events]
          /\ self' = IF out.err = "ok" THEN out.ret[1] ELSE self
          /\ active' = IF out.err = "ok" THEN None ELSE active

PrepPrompts ==
    /\ last = Idle
    /\ \E boxes \in BoxArgs, pc \in PointCoordArgs, pl \in PointLabelArgs, image \in Images :
          LET out == prep_prompts(self, boxes, pc, pl, <<image.h, image.w>>) IN
          Finish("__prep_prompts",
                 [boxes |-> boxes, points_coords |-> pc, points_labels |-> pl,
                  dims |-> <<image.h, image.w>>],
                 [err |-> out.err, ret |-> out.ret, events |-> <<>>, active |-> active])

PredictDino ==
    /\ last = Idle
    /\ \E image \in Images, det \in DetAnswers, Normalize \in BOOLEAN :
          Finish("predict_dino", [image |-> image, Normalize |-> Normalize],
                 predict_dino(self, active, image, det, Normalize))

PredictDinoBatch ==
    /\ last = Idle
    /\ \E n \in 0..MaxBatch, Normalize \in BOOLEAN :
          \E dets \in [1..n -> DetAnswers] :
             Finish("predict_dino_batch", [images |-> ImageList(n), Normalize |-> Normalize],
                    predict_dino_batch(self, active, ImageList(n), dets, Normalize))

PredictSAM1 ==
    /\ last = Idle
    /\ \E image \in Images, boxes \in BoxArgs, pc \in PointCoordArgs,
          pl \in PointLabelArgs, seg \in SegAnswers :
          Finish("predict_SAM1",
                 [image |-> image, boxes |-> boxes, points_coords |-> pc,
                  points_labels |-> pl, seg |-> seg],
                 predict_SAM1(self, active, image, boxes, pc, pl, seg))

PredictSAM1Batch ==
    /\ last = Idle
    /\ \E n \in 0..MaxBatch, boxes \in ListArgs(Some(<<<<1, 0, 1, 1>>>>)),
          pcs \in ListArgs(Some(<<<<1, 1>>>>)), pls \in ListArgs(Some(<<1>>)) :
          Finish("predict_SAM1_batch",
                 [images |-> ImageList(n), boxes |-> boxes, points_coords |-> pcs,
                  points_labels |-> pls],
                 predict_SAM1_batch(self, active, ImageList(n), boxes, pcs, pls))

PredictBatch ==
    /\ last = Idle
    /\ \E image \in Images, pbt \in Thresholds, mode \in Modes, det \in DetAnswers,
          seg \in SegAnswers :
          Finish("predict_batch",
                 [image |-> image, process_box_threshold |-> pbt, mode_predict |-> mode,
                  det |-> det, seg |-> seg],
                 predict_batch(self, active, image, pbt, mode, det, seg))

LangSamBatch ==
    /\ last = Idle
    /\ \E image_data \in Corpora, pbt \in Thresholds, mode \in Modes,
          mode_data \in DataModes, det \in DetAnswers, seg \in SegAnswers :
          Finish("LangSam_batch",
                 [image_data |-> image_data, process_box_threshold |-> pbt,
                  mode_predict |-> mode, mode_data |-> mode_data],
                 LangSam_batch(self, active, image_data, pbt, mode, mode_data, det, seg))

ResetModel ==
    /\ last = Idle
    /\ Finish("reset_model", <<>>, reset_model(self, active))

\* The call has exited and the caller goes on to its next call: calls are
\* synchronous and made one after another.
Continue ==
    /\ last # Idle
    /\ last' = Idle
    /\ UNCHANGED <<self, active>>

Next ==
    \/ Construct
    \/ PrepPrompts
    \/ PredictDino
    \/ PredictDinoBatch
    \/ PredictSAM1
    \/ PredictSAM1Batch
    \/ PredictBatch
    \/ LangSamBatch
    \/ ResetModel
    \/ Continue

Spec == Init /\ [][Next]_vars

(* ------------------------------- claims ------------------------------- *)

\* The receiver has its detector and its segmenter bound.
Equipped == self.groundingdino /\ self.SAM1

\* The positions of the calls named c in a call's events.
CallsOf(c) == {i \in 1..Len(last.events) : last.events[i].call = c}

\* C1: every segment call that made an image the segmenter's active image has
\* released it when the call exits, whether it returns or raises.
C1_ReleasedOnExit ==
    (last.op = "predict_SAM1" /\ CallsOf("set_image") # {}) => active = None

\* Exactly one of point_coords and point_labels is present.
ExactlyOnePointArg(a) == IsNone(a.points_coords) # IsNone(a.points_labels)

\* C2: on an object with a segmenter, prepare_prompt fails with the pairing
\* error exactly when one of point_coords and point_labels is present without
\* the other, whatever the boxes are.
C2_PairingError ==
    (last.op = "__prep_prompts" /\ Equipped)
      => (last.err = "ValueError:pairing" <=> ExactlyOnePointArg(last.args))

\* C3: run with a mode other than "box_predict", on an object with detector
\* and segmenter and the detector answering, fails with the unsupported-mode
\* error.
C3_UnsupportedMode ==
    (last.op = "predict_batch" /\ last.args.mode_predict # "box_predict"
       /\ Equipped /\ ~last.args.det.raises)
      => last.err = "UnsupportedModeError"

\* A provided list argument whose length differs from len(images).
WrongLength(l, images) == ~IsNone(l) /\ Len(l[1]) # Len(images)

LengthMismatch(a) ==
    \/ WrongLength(a.boxes, a.images)
    \/ WrongLength(a.points_coords, a.images)
    \/ WrongLength(a.points_labels, a.images)

\* C4 as stated: segment_batch fails with the length-mismatch error, no image
\* made active, whenever a provided list has another length than images, and
\* does not raise that error when every provided list has that length.
C4_LengthMismatchAlways ==
    last.op = "predict_SAM1_batch"
      => /\ LengthMismatch(last.args)
               => (last.err = "ValueError:length" /\ CallsOf("set_image") = {})
         /\ ~LengthMismatch(last.args) => last.err # "ValueError:length"

\* C4 as amended: with point_coords and point_labels both given or both
\* absent, a provided list of another length than images makes segment_batch
\* fail with the length-mismatch error, no image made active; with exactly one
\* of them given it fails with the pairing error instead, whatever the
\* lengths; and with every provided list of the length of images it does not
\* raise the length-mismatch error.
C4_LengthMismatchWhenPaired ==
    last.op = "predict_SAM1_batch"
      => /\ (LengthMismatch(last.args) /\ ~ExactlyOnePointArg(last.args))
               => (last.err = "ValueError:length" /\ CallsOf("set_image") = {})
         /\ ExactlyOnePointArg(last.args)
               => (last.err = "ValueError:pairing" /\ CallsOf("set_image") = {})
         /\ ~LengthMismatch(last.args) => last.err # "ValueError:length"

\* A segment_batch call with two images and one boxes entry, no points, has
\* failed with the length-mismatch error.
C4_Witness ==
    /\ last.op = "predict_SAM1_batch"
    /\ Len(last.args.images) = 2
    /\ ~IsNone(last.args.boxes) /\ Len(last.args.boxes[1]) = 1
    /\ IsNone(last.args.points_coords) /\ IsNone(last.args.points_labels)
    /\ last.err = "ValueError:length"

\* C5: detect_batch on an empty image list returns three empty lists.
C5_EmptyBatch ==
    (last.op = "predict_dino_batch" /\ Len(last.args.images) = 0)
      => (last.err = "ok" /\ last.ret = Some(<<<<>>, <<>>, <<>>>>))

MatchAbove(det, t) == \E i \in 1..Len(det.dets) : det.dets[i].logit >= t

\* C7: run with mode "box_predict", on an object with detector and segmenter
\* and both networks answering, returns the
\* filtered boxes and one mask of the image's height and width; the boxes are
\* non-empty when the detector reports a match above the threshold, and with
\* no match the boxes are empty and the mask all false.
C7_RunBoxPredict ==
    (last.op = "predict_batch" /\ last.args.mode_predict = "box_predict"
       /\ Equipped /\ ~last.args.det.raises /\ ~last.args.seg.raises)
      => /\ last.err = "ok"
         /\ LET boxes == last.ret[1][1][1]
                 mask == last.ret[1][4]
             IN  /\ mask.h = last.args.image.h /\ mask.w = last.args.image.w
                 /\ MatchAbove(last.args.det, last.args.process_box_threshold)
                       => Len(boxes) > 0
                 /\ Len(last.args.det.dets) = 0 => (Len(boxes) = 0 /\ ~mask.any)

\* C8: a construction with a valid selector and sub-model, the detector
\* loading and the segmentation model failing to load, completes: it yields
\* an object without a segmenter and prints the failure.
C8_LoadFailureSwallowed ==
    (/\ last.op = "__init__"
     /\ last.args.SAM = [isStr |-> TRUE, v |-> "SAM1"]
     /\ last.args.SAM_MODEL \in {None} \cup {Some(m) : m \in SAM1_MODELS}
     /\ last.args.env.hub /\ last.args.env.load
     /\ ~(last.args.env.checkpoint /\ last.args.env.compile))
      => /\ last.err = "ok"
         /\ ~last.ret[1].SAM1
         /\ \E i \in 1..Len(last.events) : last.events[i].call = "print"

\* The errors that reject a constructor argument and list the valid choices
\* (lines 21, 23, 44, 61).
ConfigurationErrors == {"TypeError:selector", "ValueError:selector", "ValueError:sam_model"}

\* The selector is not a valid family, or the sub-model name is not one of the
\* selected family.
InvalidConfiguration(a) ==
    \/ ~a.SAM.isStr
    \/ a.SAM.v \notin SAM_NAMES_MODELS
    \/ /\ ~IsNone(a.SAM_MODEL)
       /\ \/ a.SAM.v = "SAM1" /\ a.SAM_MODEL[1] \notin SAM1_MODELS
          \/ a.SAM.v = "SAM2" /\ a.SAM_MODEL[1] \notin SAM2_MODELS

\* C9: construction with an invalid selector, or with a sub-model name that is
\* invalid for the selected family, fails with a configuration error and
\* yields no object.
C9_ConfigurationError ==
    (last.op = "__init__" /\ InvalidConfiguration(last.args))
      => (last.err \in ConfigurationErrors /\ IsNone(last.ret))

\* C10: within one run, on an object with detector and segmenter and both
\* networks answering, the detector is called, then the box filter, then the
\* segmenter; the segmenter is called exactly when mode is "box_predict", at
\* most once, and with the boxes the filter put out.
C10_StepOrder ==
    (last.op = "predict_batch" /\ Equipped /\ ~last.args.det.raises
       /\ ~last.args.seg.raises)
      => LET det == CallsOf("predict")
             flt == CallsOf("process_box_batch")
             seg == CallsOf("predict_sam_with_boxes")
         IN  /\ (seg # {}) <=> (last.args.mode_predict = "box_predict")
             /\ Cardinality(seg) <= 1
             /\ \A s \in seg :
                   /\ \E d \in det : \E f \in flt : d < f /\ f < s
                   /\ \A f \in flt : last.events[s].boxes = last.events[f].boxes

\* C11: segment called with boxes only (no points), on an object with a
\* segmenter whose predict_torch answers, returns the combined mask of the
\* image's height and width, whether the boxes read as normalised or not.
C11_BoxesOnlyCompletes ==
    (/\ last.op = "predict_SAM1" /\ Equipped
     /\ ~IsNone(last.args.boxes) /\ Len(last.args.boxes[1]) > 0
     /\ IsNone(last.args.points_coords) /\ IsNone(last.args.points_labels)
     /\ ~last.args.seg.raises)
      => /\ last.err = "ok"
         /\ last.ret[1].h = last.args.image.h
         /\ last.ret[1].w = last.args.image.w

\* C12: a segment_batch call whose arguments pass the validation, on an
\* object with detector and segmenter, makes each image of the batch the
\* active image exactly once and in input order, resets it before the next
\* image is made active, and returns one mask per image, the k-th predicted
\* while the k-th image was the active one.
C12_SequentialBatch ==
    (/\ last.op = "predict_SAM1_batch" /\ Equipped
     /\ ~ExactlyOnePointArg(last.args) /\ ~LengthMismatch(last.args))
      => LET images == last.args.images
             ev == last.events
             set == CallsOf("set_image")
             reset == CallsOf("reset_image")
             torch == CallsOf("predict_torch")
             setOf(k) == {i \in set : ev[i].image = images[k]}
         IN  /\ \A k \in 1..Len(images) : Cardinality(setOf(k)) = 1
             /\ \A i \in set : \A j \in set :
                   i < j => \E r \in reset : i < r /\ r < j
             /\ \A k \in 1..Len(images) : \A l \in 1..Len(images) :
                   k < l => \A i \in setOf(k) : \A j \in setOf(l) : i < j
             /\ last.err = "ok" /\ Len(last.ret[1]) = Len(images)
             /\ \A k \in 1..Len(images) : \A i \in setOf(k) :
                   \E t \in torch : \E r \in reset :
                      i < t /\ t < r /\ ev[t].image = images[k]
                        /\ \A j \in set : ~(i < j /\ j < r)

\* C13: for an image array of shape height x width x channel, prepare_prompt
\* scales the corners of a normalised box by (width, height, width, height):
\* x by the image width, y by the image height, non-square images included.
\* dims is image_array.shape[:2], that is (height, width).
C13_ScaledByWidthHeight ==
    (last.op = "__prep_prompts" /\ last.err = "ok" /\ ~IsNone(last.args.boxes))
      => LET height == last.args.dims[1]
             width == last.args.dims[2]
             b == last.args.boxes[1]
             corners == [i \in 1..Len(b) |-> box_cxcywh_to_xyxy(b[i])]
             got == last.ret[1][1][1].coords
         IN  /\ Len(got) = Len(b)
             /\ \A i \in 1..Len(b) :
                   got[i] = <<corners[i][1] * width, corners[i][2] * height,
                              corners[i][3] * width, corners[i][4] * height>>

====
